---- MODULE Spec2Model ----
(***************************************************************************)
(* Payment subsystem of the dash4devs SDK: PaymentModule                   *)
(* (src/services/payment.js), the two client-side processor handlers       *)
(* AuthorizeNetCSR and StripeCSR (src/processors/), and the fetch wrapper  *)
(* DashClient._fetch (src/index.js), on one page (or one server process).  *)
(*                                                                         *)
(* JavaScript null/undefined is the empty sequence <<>>, a present value v *)
(* is <<v>>.  A promise is a record [st, val, err].  Every action is one   *)
(* run-to-completion step of the event loop: a call up to its first        *)
(* suspension, the delivery of a response or of a script event, or the     *)
(* resumption of a suspended async function.                               *)
(***************************************************************************)
EXTENDS Integers, Sequences, FiniteSets, TLC

\* ------------------------------------------------------------------ bounds
MaxLoadCalls == 3      \* PaymentModule.load() calls observed in one run
MaxGetProcessor == 1   \* PaymentModule.getProcessor() calls that reach the backend
MaxTokCalls == 2       \* handler tokenize() calls observed in one run

\* --------------------------------------------------------------- constants
ACCEPT_JS_PROD    == "https://js.authorize.net/v1/Accept.js"
ACCEPT_JS_SANDBOX == "https://jstest.authorize.net/v1/Accept.js"
STRIPE_JS_URL     == "https://js.stripe.com/v3/"

\* the sources selected by script[src*="authorize.net"]
AuthorizeNetSrcs == {ACCEPT_JS_PROD, ACCEPT_JS_SANDBOX}

\* the handler instances on the page: H0 is the one PaymentModule constructs,
\* S1 is one the application constructs itself from the exported class
HIds == {"H0", "S1"}
Kinds == {"authorize-net", "stripe"}
Envs == {"test", "live"}

\* slugs the backend may report; "paypal" stands for any slug the SDK has no
\* handler for
Slugs == {"authorize-net", "stripe", "paypal"}
Processors == [slug : Slugs, environment : Envs]

Null == <<>>
Some(v) == <<v>>
IsNull(x) == x = <<>>
Val(x) == x[1]

\* promise values
Pending == [st |-> "pending", val |-> Null, err |-> ""]
Resolved(v) == [st |-> "resolved", val |-> v, err |-> ""]
Rejected(e) == [st |-> "rejected", val |-> Null, err |-> e]

\* the errors thrown, by message (an ellipsis cuts a long message short)
MsgNotLoaded == "Payment processor not loaded. Call dash.payment.load() first."
MsgNoHandler == "Payment processor not loaded. Call load() first."
MsgAcceptNotLoaded == "Accept.js is not loaded. Call load() first."
MsgBrowserOnly == "tokenize() can only be called in a browser environment (CSR). ..."
MsgAcceptBrowserOnly == "AuthorizeNetCSR.load() can only be called in a browser environment. ..."
MsgStripeBrowserOnly == "StripeCSR.load() can only be called in a browser environment."
MsgAcceptFailed == "Failed to load Accept.js. Check your network connection."
MsgStripeFailed == "Failed to load Stripe.js. Check your network connection."
MsgNoProcessor == "No active payment processor configured for this organization."
MsgUnsupported == "Unsupported payment processor: ... Supported: authorize-net, stripe."
MsgNoTokenization == "Tokenization not supported for ..."
MsgChargeRequired == "token and amount are required for charge()."
MsgAuthorizeRequired == "token and amount are required for authorize()."
MsgCaptureRequired == "transactionId is required for capture()."
MsgVoidRequired == "transactionId is required for void()."
MsgCardRequired == "Card data is required."
MsgNumberRequired == "Card number is required."
MsgNumberInvalid == "Invalid card number."
MsgExpRequired == "Expiration date is required."
MsgExpFormat == "Expiration date must be in MM/YY or MM/YYYY format."
MsgExpMonth == "Invalid expiration month."
MsgExpired == "This card has expired."
MsgCvvRequired == "Security code (CVV) is required."
MsgCvvInvalid == "Security code must be 3 or 4 digits."
MsgCardFailed == "Card validation failed."
\* thrown by _fetch for a response that is not ok, and by fetch itself
MsgApiFailed == "API request failed"
MsgFetchFailed == "TypeError: Failed to fetch"
\* thrown by the engine when a property of null is read
MsgNullRead == "TypeError: Cannot read properties of null"

\* the spec's error classes
NotLoadedError == {MsgNotLoaded, MsgNoHandler, MsgAcceptNotLoaded}
EnvironmentError == {MsgBrowserOnly, MsgAcceptBrowserOnly, MsgStripeBrowserOnly}
ScriptLoadError == {MsgAcceptFailed, MsgStripeFailed}
NoProcessorConfiguredError == {MsgNoProcessor}
UnsupportedProcessorError == {MsgUnsupported, MsgNoTokenization}
ValidationError ==
  {MsgChargeRequired, MsgAuthorizeRequired, MsgCaptureRequired, MsgVoidRequired,
   MsgCardRequired, MsgNumberRequired, MsgNumberInvalid, MsgExpRequired,
   MsgExpFormat, MsgExpMonth, MsgExpired, MsgCvvRequired, MsgCvvInvalid}

VARIABLES
  browser,     \* typeof window !== "undefined"
  globals,     \* the processor globals present on window: "Accept", "Stripe"
  scripts,     \* every <script> element created, in document order
  o,           \* the PaymentModule instance's fields
  iife,        \* where the async function stored in o._loading stands
  handlers,    \* the handler instances' fields
  loadCalls,   \* the promises returned by PaymentModule.load() calls
  nFetch,      \* requests sent so far, per backend endpoint
  gpPending,   \* getProcessor() calls waiting for the backend's response
  tokCalls,    \* the handler tokenize() calls made: position and outcome
  apiCalls,    \* calls made to the processors' client API (dispatchData, createPaymentMethod)
  txCall,      \* the charge/authorize/capture/void request in flight, if any
  now,         \* new Date(): the current year and month
  last         \* the outcome of the latest call that settled in its own step and
               \* is not kept in loadCalls or tokCalls

vars == <<browser, globals, scripts, o, iife, handlers, loadCalls, nFetch,
          gpPending, tokCalls, apiCalls, txCall, now, last>>

pageVars == <<globals, scripts, handlers>>
callVars == <<gpPending, tokCalls, apiCalls, txCall>>

\* what _fetch throws
FetchErrors == {MsgApiFailed, MsgFetchFailed}

\* ------------------------------------------------------------ constructors
NewPaymentModule ==
  [_processor |-> Null, _clientConfig |-> Null, _handler |-> Null,
   _loading |-> Null, _loaded |-> FALSE]

\* path and tag record which branch of the script-loading algorithm the
\* instance's load() took and the element it waits for
NoHandler ==
  [made |-> FALSE, kind |-> "", env |-> "", _loaded |-> FALSE, _loading |-> Null,
   _stripe |-> FALSE, path |-> "none", tag |-> 0]

NewHandlerRec(kind, env) ==
  [made |-> TRUE, kind |-> kind, env |-> env, _loaded |-> FALSE, _loading |-> Null,
   _stripe |-> FALSE, path |-> "none", tag |-> 0]

NoLast == [op |-> "", who |-> "", st |-> "", err |-> "", val |-> Null]
Outcome(op, who, p) == [op |-> op, who |-> who, st |-> p.st, err |-> p.err, val |-> p.val]

\* ------------------------------------------------------- the page's scripts
GlobalOf(src) == IF src = STRIPE_JS_URL THEN "Stripe" ELSE "Accept"

NewTag(src, h) ==
  [src |-> src, status |-> "loading", inDoc |-> TRUE, onload |-> {h},
   onerror |-> {h}, by |-> h]

\* document.querySelector: the first element in the document whose src is in srcs
QuerySelector(sc, srcs) ==
  LET idx == {i \in 1..Len(sc) : sc[i].inDoc /\ sc[i].src \in srcs}
  IN IF idx = {} THEN 0 ELSE CHOOSE i \in idx : \A j \in idx : i <= j

Injected(sc, h) == Cardinality({i \in 1..Len(sc) : sc[i].by = h})

\* ------------------------------------------------- AuthorizeNetCSR.load()
AcceptSrc(env) == IF env = "live" THEN ACCEPT_JS_PROD ELSE ACCEPT_JS_SANDBOX

\* the promise executor of AuthorizeNetCSR.load()
AuthorizeNetExecutor(h, hs, sc, gl) ==
  IF "Accept" \in gl
    THEN [handlers |-> [hs EXCEPT ![h]._loaded = TRUE,
                                  ![h]._loading = Some(Resolved(Null)),
                                  ![h].path = "adopt"],
          scripts |-> sc]
    ELSE LET existing == QuerySelector(sc, AuthorizeNetSrcs)
             removed == IF existing # 0 THEN [sc EXCEPT ![existing].inDoc = FALSE]
                                        ELSE sc
         IN [handlers |-> [hs EXCEPT ![h]._loading = Some(Pending),
                                     ![h].path = "inject",
                                     ![h].tag = Len(sc) + 1],
             scripts |-> Append(removed, NewTag(AcceptSrc(hs[h].env), h))]

\* ------------------------------------------------------- StripeCSR.load()
\* an executor without the check of window.Stripe
StripeExecutor_NoAdopt(h, hs, sc, gl) ==
  LET existing == QuerySelector(sc, {STRIPE_JS_URL})
  IN IF existing # 0
       THEN [handlers |-> [hs EXCEPT ![h]._loading = Some(Pending),
                                     ![h].path = "listen",
                                     ![h].tag = existing],
             scripts |-> [sc EXCEPT ![existing].onload = @ \cup {h}]]
       ELSE [handlers |-> [hs EXCEPT ![h]._loading = Some(Pending),
                                     ![h].path = "inject",
                                     ![h].tag = Len(sc) + 1],
             scripts |-> Append(sc, NewTag(STRIPE_JS_URL, h))]

\* the promise executor of StripeCSR.load()
StripeExecutor(h, hs, sc, gl) ==
  IF "Stripe" \in gl
    THEN [handlers |-> [hs EXCEPT ![h]._stripe = TRUE,
                                  ![h]._loaded = TRUE,
                                  ![h]._loading = Some(Resolved(Null)),
                                  ![h].path = "adopt"],
          scripts |-> sc]
    ELSE LET existing == QuerySelector(sc, {STRIPE_JS_URL})
         IN IF existing # 0
              THEN [handlers |-> [hs EXCEPT ![h]._loading = Some(Pending),
                                            ![h].path = "listen",
                                            ![h].tag = existing],
                    scripts |-> [sc EXCEPT ![existing].onload = @ \cup {h}]]
              ELSE [handlers |-> [hs EXCEPT ![h]._loading = Some(Pending),
                                            ![h].path = "inject",
                                            ![h].tag = Len(sc) + 1],
                    scripts |-> Append(sc, NewTag(STRIPE_JS_URL, h))]

\* the two early returns shared by both variants' load()
HandlerIsLoaded(hrec) == hrec._loaded
\* a handler load() that forgets the promise it stored
HandlerHasLoading_Never(hrec) == FALSE
HandlerHasLoading(hrec) == ~IsNull(hrec._loading)

\* one call of load() on handler h: the promise it returns (ret) and the
\* fields and page after it
HandlerLoadCall(h, hs, sc, gl, br) ==
  IF HandlerIsLoaded(hs[h])
    THEN [ret |-> Resolved(Null), handlers |-> hs, scripts |-> sc]
  ELSE IF HandlerHasLoading(hs[h])
    THEN [ret |-> Val(hs[h]._loading), handlers |-> hs, scripts |-> sc]
  ELSE IF ~br
    THEN [ret |-> Rejected(IF hs[h].kind = "stripe" THEN MsgStripeBrowserOnly ELSE MsgAcceptBrowserOnly), handlers |-> hs, scripts |-> sc]
  ELSE LET r == IF hs[h].kind = "stripe" THEN StripeExecutor(h, hs, sc, gl)
                                         ELSE AuthorizeNetExecutor(h, hs, sc, gl)
       IN [ret |-> Val(r.handlers[h]._loading), handlers |-> r.handlers,
           scripts |-> r.scripts]

\* ------------------------------------------------------- JavaScript strings
\* a string is the sequence of its characters
Digits == {"0", "1", "2", "3", "4", "5", "6", "7", "8", "9"}

DigitVal(c) ==
  CASE c = "0" -> 0 [] c = "1" -> 1 [] c = "2" -> 2 [] c = "3" -> 3 [] c = "4" -> 4
    [] c = "5" -> 5 [] c = "6" -> 6 [] c = "7" -> 7 [] c = "8" -> 8 [] c = "9" -> 9

DigitChar(d) == <<"0", "1", "2", "3", "4", "5", "6", "7", "8", "9">>[d + 1]

IsDigits(s) == \A i \in 1..Len(s) : s[i] \in Digits

\* parseInt(s, 10) of a string of digits
RECURSIVE ParseInt(_)
ParseInt(s) ==
  IF Len(s) = 0 THEN 0
  ELSE 10 * ParseInt(SubSeq(s, 1, Len(s) - 1)) + DigitVal(s[Len(s)])

\* the decimal digits of a natural number
RECURSIVE NatToString(_)
NatToString(n) ==
  IF n < 10 THEN <<DigitChar(n)>>
  ELSE NatToString(n \div 10) \o <<DigitChar(n % 10)>>

\* ------------------------------------------------------- JavaScript values
\* an amount given to charge/authorize/capture: undefined (Null), a number
\* (held in hundredths), NaN, or a string
Num(c) == Some([t |-> "num", cents |-> c])
NaN == Some([t |-> "nan"])
JsNull == Some([t |-> "null"])
Str(s) == Some([t |-> "str", s |-> s])

\* String(x) for a number with at most two decimals: no exponent, no trailing
\* zeros after the point
NumberToString(c) ==
  LET a == IF c < 0 THEN 0 - c ELSE c
      whole == NatToString(a \div 100)
      frac == a % 100
      fracStr == IF frac = 0 THEN <<>>
                 ELSE IF frac % 10 = 0 THEN <<".", DigitChar(frac \div 10)>>
                 ELSE <<".", DigitChar(frac \div 10), DigitChar(frac % 10)>>
  IN (IF c < 0 THEN <<"-">> ELSE <<>>) \o whole \o fracStr

\* String(x)
String(x) ==
  IF Val(x).t = "num" THEN NumberToString(Val(x).cents)
  ELSE IF Val(x).t = "nan" THEN <<"N", "a", "N">>
  ELSE IF Val(x).t = "null" THEN <<"n", "u", "l", "l">>
  ELSE Val(x).s

\* !x for an amount: undefined, 0, NaN and "" are falsy
Falsy(x) ==
  \/ IsNull(x)
  \/ Val(x).t = "nan"
  \/ Val(x).t = "null"
  \/ Val(x).t = "num" /\ Val(x).cents = 0
  \/ Val(x).t = "str" /\ Val(x).s = <<>>

\* ------------------------------------ AuthorizeNetCSR._validateAndClean
Whitespace == {" ", "\t"}

\* a cleaning that removes spaces only
StripWhitespace_SpacesOnly(s) == SelectSeq(s, LAMBDA c : c # " ")

\* s.replace(/\s+/g, "")
StripWhitespace(s) == SelectSeq(s, LAMBDA c : c \notin Whitespace)

\* !s for a string field: undefined or ""
Missing(f) == IsNull(f) \/ Val(f) = <<>>

\* the match of /^(\d{1,2})\/?(\d{2,4})$/ that gives the first group a digits
ExpGroups(s, a) ==
  IF Len(s) < a THEN Null
  ELSE LET g1 == SubSeq(s, 1, a)
           slash == IF Len(s) > a /\ s[a + 1] = "/" THEN 1 ELSE 0
           g2 == SubSeq(s, a + slash + 1, Len(s))
       IN IF IsDigits(g1) /\ IsDigits(g2) /\ Len(g2) \in 2..4
            THEN Some([m |-> g1, y |-> g2])
            ELSE Null

\* expDate.match(...): the first group is greedy
ExpMatch(s) == IF ~IsNull(ExpGroups(s, 2)) THEN ExpGroups(s, 2) ELSE ExpGroups(s, 1)

\* m.padStart(2, "0")
PadStart2(m) == IF Len(m) < 2 THEN <<"0">> \o m ELSE m

\* year.length === 4 ? year.slice(-2) : year
TwoDigitYear(y) == IF Len(y) = 4 THEN SubSeq(y, 3, 4) ELSE y

Threw(msg) == [ok |-> FALSE, err |-> msg, cardNumber |-> <<>>, month |-> <<>>,
               year |-> <<>>, cvv |-> <<>>]

\* _validateAndClean(cardData) at the date d
ValidateAndClean(cardData, d) ==
  IF IsNull(cardData) THEN Threw(MsgCardRequired)
  ELSE LET c == Val(cardData) IN
  IF Missing(c.cardNumber) THEN Threw(MsgNumberRequired)
  ELSE LET cleanNumber == StripWhitespace(Val(c.cardNumber)) IN
  IF ~(IsDigits(cleanNumber) /\ Len(cleanNumber) \in 13..19) THEN Threw(MsgNumberInvalid)
  ELSE IF Missing(c.expDate) THEN Threw(MsgExpRequired)
  ELSE LET expMatch == ExpMatch(Val(c.expDate)) IN
  IF IsNull(expMatch) THEN Threw(MsgExpFormat)
  ELSE LET month == PadStart2(Val(expMatch).m)
           year == TwoDigitYear(Val(expMatch).y)
           monthNum == ParseInt(month)
           currentYear == d.year % 100
           currentMonth == d.month
           yearNum == ParseInt(year)
       IN
  IF monthNum < 1 \/ monthNum > 12 THEN Threw(MsgExpMonth)
  ELSE IF yearNum < currentYear \/ (yearNum = currentYear /\ monthNum < currentMonth)
    THEN Threw(MsgExpired)
  ELSE IF Missing(c.cvv) THEN Threw(MsgCvvRequired)
  ELSE IF ~(IsDigits(Val(c.cvv)) /\ Len(Val(c.cvv)) \in 3..4) THEN Threw(MsgCvvInvalid)
  ELSE [ok |-> TRUE, err |-> "", cardNumber |-> cleanNumber, month |-> month,
        year |-> year, cvv |-> Val(c.cvv)]

\* ------------------------------------------------------------------ inputs
Nows == {[year |-> 2025, month |-> 6]}

Card(n, e, c) == Some([cardNumber |-> n, expDate |-> e, cvv |-> c])
Visa == <<"4", "1", "1", "1", " ", "1", "1", "1", "1", " ", "1", "1", "1", "1", " ",
          "1", "1", "1", "1">>

\* the card data tokenize() is called with: a good card, an expired one, none
CardInputs ==
  {Card(Some(Visa), Some(<<"1", "2", "/", "3", "0">>), Some(<<"1", "2", "3">>)),
   Card(Some(Visa), Some(<<"0", "1", "/", "2", "0">>), Some(<<"1", "2", "3">>)),
   Null}

\* ------------------------------------------------------------------- Init
Init ==
  /\ browser \in BOOLEAN
  /\ globals = {}
  /\ scripts = <<>>
  /\ o = NewPaymentModule
  /\ iife = "none"
  /\ handlers = [h \in HIds |-> NoHandler]
  /\ loadCalls = <<>>
  /\ nFetch = [clientConfig |-> 0, processor |-> 0]
  /\ gpPending = 0
  /\ tokCalls = <<>>
  /\ apiCalls = 0
  /\ txCall = Null
  /\ now \in Nows
  /\ last = NoLast

\* --------------------------------------------------- PaymentModule.load()
IsLoaded(pm) == pm._loaded
\* a load() that forgets a stored promise once it has rejected
HasLoading_UntilRejected(pm) == ~IsNull(pm._loading) /\ Val(pm._loading).st # "rejected"
\* a load() that forgets the promise it stored
HasLoading_Never(pm) == FALSE
HasLoading(pm) == ~IsNull(pm._loading)

\* load(): return the cached processor, or the stored promise, or start the
\* async function, which runs up to the client-config fetch
Load ==
  /\ Len(loadCalls) < MaxLoadCalls
  /\ IF IsLoaded(o)
       THEN /\ loadCalls' = Append(loadCalls, [via |-> "cache", p |-> Resolved(o._processor)])
            /\ UNCHANGED <<o, iife, nFetch>>
     ELSE IF HasLoading(o)
       THEN /\ loadCalls' = Append(loadCalls, [via |-> "promise", p |-> Pending])
            /\ UNCHANGED <<o, iife, nFetch>>
     ELSE /\ o' = [o EXCEPT !._loading = Some(Pending)]
          /\ iife' = "fetch"
          /\ nFetch' = [nFetch EXCEPT !.clientConfig = @ + 1]
          /\ loadCalls' = Append(loadCalls, [via |-> "promise", p |-> Pending])
  /\ UNCHANGED <<browser, now, pageVars, callVars, last>>

\* a _createHandler whose default case builds a Stripe handler
CreateHandlerKind_Default(slug) ==
  IF slug = "authorize-net" THEN Some("authorize-net") ELSE Some("stripe")

\* _createHandler: the handler class for a slug, <<>> when it throws
CreateHandlerKind(slug) ==
  IF slug = "authorize-net" THEN Some("authorize-net")
  ELSE IF slug = "stripe" THEN Some("stripe")
  ELSE Null

\* a load() that constructs the handler in every context
InBrowser_Always(br) == TRUE

\* typeof window !== "undefined": the branch of load() that constructs and
\* loads the handler, and the second guard of tokenize()
InBrowser(br) == br

\* _fetch throws: the fetch failed or the response is not ok
LoadFetchFails(e) ==
  /\ iife = "fetch"
  /\ e \in FetchErrors
  /\ o' = [o EXCEPT !._loading = Some(Rejected(e))]
  /\ iife' = "done"
  /\ UNCHANGED <<browser, now, pageVars, callVars, loadCalls, nFetch, last>>

\* _fetch returns data: lines 60-79 up to the await of the handler's load()
LoadFetchReturns(proc) ==
  /\ iife = "fetch"
  /\ proc \in {Null} \cup {Some(p) : p \in Processors}
  /\ LET o1 == [o EXCEPT !._processor = proc, !._clientConfig = Some("publicKeys")]
     IN IF IsNull(proc)
          THEN /\ o' = [o1 EXCEPT !._loading = Some(Rejected(MsgNoProcessor))]
               /\ iife' = "done"
               /\ UNCHANGED <<handlers, scripts>>
        ELSE IF InBrowser(browser)
          THEN LET k == CreateHandlerKind(Val(proc).slug)
               IN IF IsNull(k)
                    THEN /\ o' = [o1 EXCEPT !._loading = Some(Rejected(MsgUnsupported))]
                         /\ iife' = "done"
                         /\ UNCHANGED <<handlers, scripts>>
                    ELSE LET hs1 == [handlers EXCEPT !["H0"] =
                                       NewHandlerRec(Val(k), Val(proc).environment)]
                             r == HandlerLoadCall("H0", hs1, scripts, globals, browser)
                         IN /\ o' = [o1 EXCEPT !._handler = Some("H0")]
                            /\ handlers' = r.handlers
                            /\ scripts' = r.scripts
                            /\ iife' = "handler"
        ELSE /\ o' = [o1 EXCEPT !._loaded = TRUE, !._loading = Some(Resolved(proc))]
             /\ iife' = "done"
             /\ UNCHANGED <<handlers, scripts>>
  /\ UNCHANGED <<browser, now, globals, callVars, loadCalls, nFetch, last>>

\* the await of this._handler.load() completes: lines 75-79
LoadResume ==
  /\ iife = "handler"
  /\ ~IsNull(handlers["H0"]._loading)
  /\ LET p == Val(handlers["H0"]._loading)
     IN /\ p.st # "pending"
        /\ IF p.st = "resolved"
             THEN o' = [o EXCEPT !._loaded = TRUE,
                                 !._loading = Some(Resolved(o._processor))]
             ELSE o' = [o EXCEPT !._loading = Some(Rejected(p.err))]
  /\ iife' = "done"
  /\ UNCHANGED <<browser, now, pageVars, callVars, loadCalls, nFetch, last>>

\* a promise returned by load() follows the stored promise once that settled
LoadCallSettles(c) ==
  /\ c \in 1..Len(loadCalls)
  /\ loadCalls[c].p.st = "pending"
  /\ ~IsNull(o._loading)
  /\ Val(o._loading).st # "pending"
  /\ loadCalls' = [loadCalls EXCEPT ![c].p = Val(o._loading)]
  /\ UNCHANGED <<browser, now, pageVars, callVars, o, iife, nFetch, last>>

\* ------------------------------------------- handlers used by the application
\* new AuthorizeNetCSR(config) / new StripeCSR(config)
NewHandler(kind, env) ==
  /\ ~handlers["S1"].made
  /\ handlers' = [handlers EXCEPT !["S1"] = NewHandlerRec(kind, env)]
  /\ UNCHANGED <<browser, now, globals, scripts, callVars, o, iife, loadCalls, nFetch, last>>

\* handler.load() called by the application (S1, or H0 through getHandler())
HandlerLoad(h) ==
  /\ handlers[h].made
  /\ LET r == HandlerLoadCall(h, handlers, scripts, globals, browser)
     IN /\ handlers' = r.handlers
        /\ scripts' = r.scripts
        /\ last' = Outcome("handler.load", h, r.ret)
  /\ UNCHANGED <<browser, now, globals, callVars, o, iife, loadCalls, nFetch>>

\* ----------------------------------------------------------- script events
\* the element's load event: the script has run and defined its global; the
\* onload handler and the added listeners run
ScriptLoaded(i) ==
  /\ i \in 1..Len(scripts)
  /\ scripts[i].status = "loading"
  /\ scripts' = [scripts EXCEPT ![i].status = "loaded"]
  /\ globals' = globals \cup {GlobalOf(scripts[i].src)}
  /\ handlers' = [h \in HIds |->
       IF h \in scripts[i].onload
         THEN [handlers[h] EXCEPT !._stripe = (handlers[h].kind = "stripe"),
                                  !._loaded = TRUE,
                                  !._loading = Some(Resolved(Null))]
         ELSE handlers[h]]
  /\ UNCHANGED <<browser, now, callVars, o, iife, loadCalls, nFetch, last>>

\* an error event whose handler forgets the stored promise
ScriptFailed_Clears(i) ==
  /\ i \in 1..Len(scripts)
  /\ scripts[i].status = "loading"
  /\ scripts' = [scripts EXCEPT ![i].status = "error"]
  /\ handlers' = [h \in HIds |->
       IF h \in scripts[i].onerror THEN [handlers[h] EXCEPT !._loading = Null]
                                   ELSE handlers[h]]
  /\ UNCHANGED <<browser, now, globals, callVars, o, iife, loadCalls, nFetch, last>>

\* the element's error event: the onerror handler runs
ScriptFailed(i) ==
  /\ i \in 1..Len(scripts)
  /\ scripts[i].status = "loading"
  /\ scripts' = [scripts EXCEPT ![i].status = "error"]
  /\ handlers' = [h \in HIds |->
       IF h \in scripts[i].onerror
         THEN [handlers[h] EXCEPT !._loading = Some(Rejected(IF handlers[h].kind = "stripe"
                                                            THEN MsgStripeFailed
                                                            ELSE MsgAcceptFailed))]
         ELSE handlers[h]]
  /\ UNCHANGED <<browser, now, globals, callVars, o, iife, loadCalls, nFetch, last>>

\* ------------------------------------------- PaymentModule.getProcessor()
\* a getProcessor() that never finds a cached processor
ProcessorCached_Never(pm) == FALSE

\* if (this._processor): null and undefined are falsy
ProcessorCached(pm) == ~IsNull(pm._processor)

GetProcessor ==
  /\ IF ProcessorCached(o)
       THEN /\ last' = Outcome("getProcessor", "pm", Resolved(o._processor))
            /\ UNCHANGED <<gpPending, nFetch>>
       ELSE /\ nFetch.processor < MaxGetProcessor
            /\ gpPending' = gpPending + 1
            /\ nFetch' = [nFetch EXCEPT !.processor = @ + 1]
            /\ last' = last
  /\ UNCHANGED <<browser, now, pageVars, o, iife, loadCalls, tokCalls, apiCalls, txCall>>

\* the processor endpoint answers: lines 96-97
GetProcessorReturns(proc) ==
  /\ gpPending > 0
  /\ gpPending' = gpPending - 1
  /\ o' = [o EXCEPT !._processor = proc]
  /\ UNCHANGED <<browser, now, pageVars, iife, loadCalls, nFetch, tokCalls, apiCalls, txCall,
                 last>>

GetProcessorFails(e) ==
  /\ gpPending > 0
  /\ e \in FetchErrors
  /\ gpPending' = gpPending - 1
  /\ UNCHANGED <<browser, now, pageVars, o, iife, loadCalls, nFetch, tokCalls, apiCalls, txCall,
                 last>>

\* --------------------------------------------- PaymentModule.getHandler()
\* a getHandler() that never throws
HandlerMissing_Never(pm) == FALSE

\* if (!this._handler)
HandlerMissing(pm) == IsNull(pm._handler)

\* the object getHandler() returns: the instance this._handler refers to
HandlerRef(pm) == Some([handler |-> pm._handler])

\* getHandler(): throws, or returns this._handler
GetHandler ==
  /\ last' = Outcome("getHandler", "pm",
                     IF HandlerMissing(o) THEN Rejected(MsgNoHandler)
                                          ELSE Resolved(HandlerRef(o)))
  /\ UNCHANGED <<browser, now, pageVars, callVars, o, iife, loadCalls, nFetch>>

\* ------------------------------------------------------ handler tokenize()
\* the guard before the implicit load(): !this._stripe / !this._loaded
NeedsLoad(hrec) == IF hrec.kind = "stripe" THEN ~hrec._stripe ELSE ~hrec._loaded

\* tokenize() once the handle needs no load: up to the call of the processor's
\* API ("api") or a throw
\* a tokenize() that hands the card to the processor without validating it
AfterLoad_NoValidation(hrec, gl, card, d) ==
  IF hrec.kind = "stripe"
    THEN IF hrec._stripe THEN [st |-> "api", err |-> "", sent |-> Null]
                         ELSE [st |-> "rejected", err |-> MsgNullRead, sent |-> Null]
  ELSE IF "Accept" \notin gl
    THEN [st |-> "rejected", err |-> MsgAcceptNotLoaded, sent |-> Null]
  ELSE [st |-> "api", err |-> "", sent |-> Null]

\* sent is secureData.cardData, what Accept.dispatchData is given
AfterLoad(hrec, gl, card, d) ==
  IF hrec.kind = "stripe"
    THEN IF hrec._stripe THEN [st |-> "api", err |-> "", sent |-> Null]
                         ELSE [st |-> "rejected", err |-> MsgNullRead, sent |-> Null]
  ELSE IF "Accept" \notin gl
    THEN [st |-> "rejected", err |-> MsgAcceptNotLoaded, sent |-> Null]
  ELSE LET cleaned == ValidateAndClean(card, d)
       IN IF cleaned.ok
            THEN [st |-> "api", err |-> "",
                  sent |-> Some([cardNumber |-> cleaned.cardNumber, month |-> cleaned.month,
                                 year |-> cleaned.year, cardCode |-> cleaned.cvv])]
            ELSE [st |-> "rejected", err |-> cleaned.err, sent |-> Null]

\* code is the code property of the error a call rejected with
TokCall(h, via, st, err, card) ==
  [h |-> h, via |-> via, st |-> st, err |-> err, card |-> card, tok |-> Null,
   sent |-> Null, code |-> ""]

\* handler.tokenize(card) up to its first suspension
HandlerTokenizeCall(h, via, card) ==
  /\ Len(tokCalls) < MaxTokCalls
  /\ IF NeedsLoad(handlers[h])
       THEN LET r == HandlerLoadCall(h, handlers, scripts, globals, browser)
            IN /\ handlers' = r.handlers
               /\ scripts' = r.scripts
               /\ apiCalls' = apiCalls
               /\ tokCalls' = Append(tokCalls,
                    IF r.ret.st = "rejected" THEN TokCall(h, via, "rejected", r.ret.err, Null)
                                             ELSE TokCall(h, via, "load", "", card))
       ELSE LET a == AfterLoad(handlers[h], globals, card, now)
            IN /\ tokCalls' = Append(tokCalls,
                    [TokCall(h, via, a.st, a.err, Null) EXCEPT !.sent = a.sent])
               /\ apiCalls' = apiCalls + (IF a.st = "api" THEN 1 ELSE 0)
               /\ UNCHANGED <<handlers, scripts>>

\* handler.tokenize(card) called by the application
HandlerTokenize(h, card) ==
  /\ handlers[h].made
  /\ HandlerTokenizeCall(h, "app", card)
  /\ UNCHANGED <<browser, now, globals, o, iife, loadCalls, nFetch, gpPending, txCall, last>>

\* the await of this.load() in tokenize() completes
TokenizeResume(c) ==
  /\ c \in 1..Len(tokCalls)
  /\ tokCalls[c].st = "load"
  /\ LET hrec == handlers[tokCalls[c].h]
         p == Val(hrec._loading)
     IN /\ p.st # "pending"
        /\ IF p.st = "rejected"
             THEN /\ tokCalls' = [tokCalls EXCEPT ![c].st = "rejected", ![c].err = p.err,
                                                  ![c].card = Null]
                  /\ apiCalls' = apiCalls
             ELSE LET a == AfterLoad(hrec, globals, tokCalls[c].card, now)
                  IN /\ tokCalls' = [tokCalls EXCEPT ![c].st = a.st, ![c].err = a.err,
                                                     ![c].card = Null, ![c].sent = a.sent]
                     /\ apiCalls' = apiCalls + (IF a.st = "api" THEN 1 ELSE 0)
  /\ UNCHANGED <<browser, now, pageVars, o, iife, loadCalls, nFetch, gpPending, txCall, last>>

\* what a successful tokenization returns
TokenOf(kind) ==
  IF kind = "stripe" THEN [token |-> "pm_1", descriptor |-> "STRIPE.PAYMENT_METHOD"]
                     ELSE [token |-> "opaque", descriptor |-> "COMMON.ACCEPT.INAPP.PAYMENT"]

\* an answer that settles every call waiting on the same handler
ApiResponds_Broadcast(c, ok) ==
  /\ c \in 1..Len(tokCalls)
  /\ tokCalls[c].st = "api"
  /\ tokCalls' =
       [d \in 1..Len(tokCalls) |->
          IF tokCalls[d].st = "api" /\ tokCalls[d].h = tokCalls[c].h
            THEN IF ok
                   THEN [tokCalls[d] EXCEPT !.st = "resolved",
                                            !.tok = Some(TokenOf(handlers[tokCalls[c].h].kind))]
                   ELSE [tokCalls[d] EXCEPT !.st = "rejected", !.err = MsgCardFailed]
            ELSE tokCalls[d]]
  /\ UNCHANGED <<browser, now, pageVars, o, iife, loadCalls, nFetch, gpPending, apiCalls,
                 txCall, last>>

\* the processor's API answers a tokenize() call
ApiResponds(c, ok) ==
  /\ c \in 1..Len(tokCalls)
  /\ tokCalls[c].st = "api"
  /\ tokCalls' = IF ok
       THEN [tokCalls EXCEPT ![c].st = "resolved",
                             ![c].tok = Some(TokenOf(handlers[tokCalls[c].h].kind))]
       ELSE [tokCalls EXCEPT ![c].st = "rejected", ![c].err = MsgCardFailed]
  /\ UNCHANGED <<browser, now, pageVars, o, iife, loadCalls, nFetch, gpPending, apiCalls,
                 txCall, last>>

\* ----------------------------------------------- PaymentModule.tokenize()
\* a guard that only asks for a handler
NotLoaded_HandlerOnly(pm) == IsNull(pm._handler)

\* the first guard of tokenize()
NotLoaded(pm) == ~pm._loaded \/ IsNull(pm._handler)

Tokenize(card) ==
  IF NotLoaded(o)
    THEN /\ last' = Outcome("tokenize", "pm", Rejected(MsgNotLoaded))
         /\ UNCHANGED <<browser, now, pageVars, callVars, o, iife, loadCalls, nFetch>>
  ELSE IF ~InBrowser(browser)
    THEN /\ last' = Outcome("tokenize", "pm", Rejected(MsgBrowserOnly))
         /\ UNCHANGED <<browser, now, pageVars, callVars, o, iife, loadCalls, nFetch>>
  ELSE IF IsNull(o._processor)
    THEN /\ last' = Outcome("tokenize", "pm", Rejected(MsgNullRead))
         /\ UNCHANGED <<browser, now, pageVars, callVars, o, iife, loadCalls, nFetch>>
  ELSE IF Val(o._processor).slug \in {"authorize-net", "stripe"}
    THEN /\ HandlerTokenizeCall(Val(o._handler), "pm", card)
         /\ UNCHANGED <<browser, now, globals, o, iife, loadCalls, nFetch, gpPending, txCall,
                        last>>
  ELSE /\ last' = Outcome("tokenize", "pm", Rejected(MsgNoTokenization))
       /\ UNCHANGED <<browser, now, pageVars, callVars, o, iife, loadCalls, nFetch>>

\* -------------------------------------------------------- DashClient._fetch
\* the promise _fetch returns for a response: lines 189-203
FetchResult(resp) ==
  IF resp.network THEN Rejected(MsgFetchFailed)
  ELSE IF ~resp.ok THEN Rejected(MsgApiFailed)
  ELSE Resolved(Some(resp.data))

\* what the backend may answer to a transaction request
TxResponses ==
  {[network |-> FALSE, ok |-> TRUE, data |-> [success |-> TRUE, error |-> ""]],
   [network |-> FALSE, ok |-> TRUE, data |-> [success |-> FALSE, error |-> "declined"]],
   [network |-> FALSE, ok |-> FALSE, data |-> [success |-> FALSE, error |-> "declined"]],
   [network |-> TRUE, ok |-> FALSE, data |-> [success |-> FALSE, error |-> ""]]}

\* ------------------------------------ charge / authorize / capture / void
\* a field that is always replaced by its default
OrElse_Default(x, d) == d

\* x || d for a string field
OrElse(x, d) == IF IsNull(x) \/ Val(x) = "" THEN d ELSE Val(x)

\* a guard that lets an empty token through
ChargeInvalid_NoEmptyCheck(data) ==
  \/ IsNull(data)
  \/ IsNull(Val(data).token)
  \/ Falsy(Val(data).amount)

\* the guard of charge()
ChargeInvalid(data) ==
  \/ IsNull(data)
  \/ IsNull(Val(data).token) \/ Val(Val(data).token) = ""
  \/ Falsy(Val(data).amount)

\* the guard of authorize()
AuthorizeInvalid(authData) ==
  \/ IsNull(authData)
  \/ IsNull(Val(authData).token) \/ Val(Val(authData).token) = ""
  \/ Falsy(Val(authData).amount)

\* the body of charge() and of authorize()
ChargeBody(data) ==
  [token |-> Val(Val(data).token),
   descriptor |-> OrElse(Val(data).descriptor, ""),
   amount |-> String(Val(data).amount),
   currency |-> OrElse(Val(data).currency, "USD"),
   invoice_number |-> OrElse(Val(data).invoiceNumber, ""),
   description |-> OrElse(Val(data).description, ""),
   billing |-> IF IsNull(Val(data).billing) THEN "{}" ELSE Val(Val(data).billing)]

\* a transaction call that asks for a loaded module first
SendTx_NeedsLoad(op, body) ==
  IF o._loaded
    THEN /\ IsNull(txCall)
         /\ txCall' = Some([op |-> op, method |-> "POST",
                            url |-> "/api/storefront/payment/" \o op, body |-> body])
         /\ last' = last
    ELSE /\ last' = Outcome(op, "pm", Rejected(MsgNotLoaded))
         /\ UNCHANGED txCall

\* the request handed to _fetch; the application awaits one transaction call
\* before it makes the next
SendTx(op, body) ==
  /\ IsNull(txCall)
  /\ txCall' = Some([op |-> op, method |-> "POST",
                     url |-> "/api/storefront/payment/" \o op, body |-> body])
  /\ last' = last

RejectTx(op, msg) ==
  /\ last' = Outcome(op, "pm", Rejected(msg))
  /\ UNCHANGED txCall

Charge(data) ==
  /\ IF ChargeInvalid(data) THEN RejectTx("charge", MsgChargeRequired)
                            ELSE SendTx("charge", ChargeBody(data))
  /\ UNCHANGED <<browser, now, pageVars, o, iife, loadCalls, nFetch, gpPending, tokCalls,
                 apiCalls>>

Authorize(data) ==
  /\ IF AuthorizeInvalid(data) THEN RejectTx("authorize", MsgAuthorizeRequired)
                            ELSE SendTx("authorize", ChargeBody(data))
  /\ UNCHANGED <<browser, now, pageVars, o, iife, loadCalls, nFetch, gpPending, tokCalls,
                 apiCalls>>

\* a guard that lets an empty transactionId through
TransactionIdMissing_NoEmptyCheck(data) ==
  IsNull(data) \/ IsNull(Val(data).transactionId)

\* the guard of capture() and of void()
TransactionIdMissing(data) ==
  IsNull(data) \/ IsNull(Val(data).transactionId) \/ Val(Val(data).transactionId) = ""

\* the body of capture(): amount is a key only when it is not undefined
CaptureBody(data) ==
  [transaction_id |-> Val(Val(data).transactionId),
   amount |-> IF IsNull(Val(data).amount) THEN Null ELSE Some(String(Val(data).amount))]

Capture(data) ==
  /\ IF TransactionIdMissing(data) THEN RejectTx("capture", MsgCaptureRequired)
                                   ELSE SendTx("capture", CaptureBody(data))
  /\ UNCHANGED <<browser, now, pageVars, o, iife, loadCalls, nFetch, gpPending, tokCalls,
                 apiCalls>>

VoidBody(data) == [transaction_id |-> Val(Val(data).transactionId)]

Void(data) ==
  /\ IF TransactionIdMissing(data) THEN RejectTx("void", MsgVoidRequired)
                                   ELSE SendTx("void", VoidBody(data))
  /\ UNCHANGED <<browser, now, pageVars, o, iife, loadCalls, nFetch, gpPending, tokCalls,
                 apiCalls>>

\* the backend answers the request in flight
TxResponds(resp) ==
  /\ ~IsNull(txCall)
  /\ resp \in TxResponses
  /\ txCall' = Null
  /\ last' = Outcome(Val(txCall).op, "pm", FetchResult(resp))
  /\ UNCHANGED <<browser, now, pageVars, o, iife, loadCalls, nFetch, gpPending, tokCalls,
                 apiCalls>>

\* ------------------------------------- Accept.js errors (authorize-net.js)
ERROR_MESSAGES ==
  ("E_WC_01" :> "Please check the expiration date and try again.") @@
  ("E_WC_02" :> "Please check the card information and try again.") @@
  ("E_WC_03" :> "Please check the card information and try again.") @@
  ("E_WC_04" :> "Please check the security code (CVV) and try again.") @@
  ("E_WC_05" :> "Please include all required fields.") @@
  ("E_WC_06" :> "Please check the security code (CVV) and try again.") @@
  ("E_WC_07" :> "Please check the card number and try again.") @@
  ("E_WC_08" :> "Please check the card number and try again.") @@
  ("E_WC_09" :> "Please provide a valid bank routing number.") @@
  ("E_WC_10" :> "Please provide a valid bank account number.") @@
  ("E_WC_11" :> "Please provide a valid bank name.") @@
  ("E_WC_12" :> "Please provide a valid bank account name.") @@
  ("E_WC_13" :> "Please provide a valid echeck type.") @@
  ("E_WC_14" :> "Please include all required fields.") @@
  ("E_WC_15" :> "The card has expired. Please use a different card.") @@
  ("E_WC_16" :> "The card number appears to be invalid.") @@
  ("E_WC_17" :> "Please check the card expiration date.") @@
  ("E_WC_18" :> "Please check the card security code (CVV).") @@
  ("E_WC_19" :> "An unexpected error occurred. Please try again.") @@
  ("E_WC_20" :> "The merchant credentials are invalid.") @@
  ("E_WC_21" :> "The request could not be processed. Please try again.")

\* ERROR_MESSAGES[code]: <<>> for a code the table lacks
Lookup(code) ==
  IF code \in DOMAIN ERROR_MESSAGES THEN Some(ERROR_MESSAGES[code]) ELSE Null

\* the error tokenize() rejects with for response.messages.message = errors:
\* lines 135-142
AcceptError(errors) ==
  LET firstError == IF Len(errors) = 0 THEN [code |-> Null, text |-> Null] ELSE errors[1]
      code == OrElse(firstError.code, "")
      friendlyMessage ==
        IF ~IsNull(Lookup(code)) THEN Val(Lookup(code))
        ELSE OrElse(firstError.text, MsgCardFailed)
  IN [message |-> friendlyMessage, code |-> code]

\* Accept.dispatchData calls back with resultCode "Error"
AcceptRespondsError(c, errors) ==
  /\ c \in 1..Len(tokCalls)
  /\ tokCalls[c].st = "api"
  /\ handlers[tokCalls[c].h].kind = "authorize-net"
  /\ tokCalls' = [tokCalls EXCEPT ![c].st = "rejected",
                                  ![c].err = AcceptError(errors).message,
                                  ![c].code = AcceptError(errors).code]
  /\ UNCHANGED <<browser, now, pageVars, o, iife, loadCalls, nFetch, gpPending, apiCalls,
                 txCall, last>>

\* ------------------------------------------------------------- input sets
ChargeData(t, d, a, c) ==
  Some([token |-> t, descriptor |-> d, amount |-> a, currency |-> c,
        invoiceNumber |-> Null, description |-> Null, billing |-> Null])

Amounts ==
  {Null, Num(0), Num(0 - 500), Num(50), Num(1000), Num(9999), NaN,
   Str(<<>>), Str(<<"0">>), Str(<<"-", "5">>), Str(<<"a", "b", "c">>),
   Str(<<"1", "0", ".", "0", "0">>)}

TenDollars == Str(<<"1", "0", ".", "0", "0">>)

\* the arguments of charge() and authorize(): none, every amount with a token,
\* and every token and descriptor with an amount
ChargeInputs ==
  {Null}
  \cup {ChargeData(Some("tok_abc"), Some("COMMON.ACCEPT.INAPP.PAYMENT"), a, Null) :
          a \in Amounts}
  \cup {ChargeData(t, d, TenDollars, Null) :
          t \in {Null, Some(""), Some("tok_abc")},
          d \in {Null, Some("COMMON.ACCEPT.INAPP.PAYMENT")}}

CaptureData(t, a) == Some([transactionId |-> t, amount |-> a])

CaptureInputs ==
  {Null} \cup {CaptureData(t, a) : t \in {Null, Some(""), Some("auth_1")},
                                   a \in {Null, JsNull, Num(1000),
                                          Str(<<"1", "0", ".", "0", "0">>)}}

VoidInputs ==
  {Null, Some([transactionId |-> Null]), Some([transactionId |-> Some("")]),
   Some([transactionId |-> Some("auth_1")])}

\* the argument the application builds from a token: { token, descriptor, amount }
TokenData(tok, a) == ChargeData(Some(tok.token), Some(tok.descriptor), a, Null)

\* charge() with the token a tokenize() call resolved with
ChargeWithToken(c) ==
  /\ c \in 1..Len(tokCalls)
  /\ tokCalls[c].st = "resolved"
  /\ Charge(TokenData(Val(tokCalls[c].tok), TenDollars))

\* authorize() with the token a tokenize() call resolved with
AuthorizeWithToken(c) ==
  /\ c \in 1..Len(tokCalls)
  /\ tokCalls[c].st = "resolved"
  /\ Authorize(TokenData(Val(tokCalls[c].tok), TenDollars))

\* the strings typed into the card form
Rep(ch, n) == [i \in 1..n |-> ch]

CardNumbers ==
  {Null, Some(<<>>), Some(Visa), Some(Rep("4", 12)), Some(Rep("4", 13)), Some(Rep("4", 19)),
   Some(Rep("4", 20)), Some(<<" ">> \o Rep("4", 13) \o <<"\t">>),
   Some(Rep("4", 12) \o <<"a">>), Some(Rep("4", 8) \o <<"-">> \o Rep("1", 8))}

\* expiry dates in the documented forms MM/YY and MM/YYYY, months 1..12
DocumentedExpiries ==
  {<<"1", "2", "/", "3", "0">>,
   <<"1", "2", "/", "2", "0", "3", "0">>,
   <<"0", "6", "/", "2", "5">>,
   <<"0", "6", "/", "2", "0", "2", "5">>,
   <<"0", "5", "/", "2", "5">>,
   <<"0", "1", "/", "2", "0">>,
   <<"1", "2", "/", "2", "0", "2", "4">>,
   <<"0", "1", "/", "2", "1", "0", "1">>,
   <<"1", "2", "/", "1", "9", "9", "9">>}

OtherExpiries ==
  {<<"1", "/", "3", "0">>,
   <<"1", "2", "3", "0">>,
   <<"1", "2", "/", "2", "0", "3">>,
   <<"1", "3", "/", "3", "0">>,
   <<"0", "0", "/", "3", "0">>,
   <<"a", "b", "c">>,
   <<"1", "2", "-", "3", "0">>,
   <<"1", "2", "/", "3">>,
   <<"1", "2", "/", "2", "0", "3", "0", "1">>,
   <<>>}

Expiries == {Null} \cup {Some(e) : e \in DocumentedExpiries \cup OtherExpiries}

Cvvs ==
  {Null} \cup {Some(v) : v \in {<<"1", "2", "3">>, <<"1", "2", "3", "4">>, <<"1", "2">>, <<"1", "2", "3", "4", "5">>, <<"1", "2", "a">>, <<>>}}

GoodExpiry == Some(<<"1", "2", "/", "3", "0">>)
GoodCvv == Some(<<"1", "2", "3">>)

\* the cards of the validation runs: one field varies, the others are good
CardCases ==
  {Null}
  \cup {Card(n, GoodExpiry, GoodCvv) : n \in CardNumbers}
  \cup {Card(Some(Visa), e, GoodCvv) : e \in Expiries}
  \cup {Card(Some(Visa), GoodExpiry, v) : v \in Cvvs}

\* what Accept.js may report in response.messages.message
AcceptErrors ==
  {<<>>,
   <<[code |-> Some("E_WC_05"), text |-> Some("Please provide valid expiration date.")]>>,
   <<[code |-> Some("E_WC_15"), text |-> Null]>>,
   <<[code |-> Some("E_WC_21"), text |-> Some("User authentication failed.")],
     [code |-> Some("E_WC_05"), text |-> Null]>>,
   <<[code |-> Some("E_WC_99"), text |-> Some("Unknown processor failure 99.")]>>,
   <<[code |-> Some("E_WC_99"), text |-> Null]>>,
   <<[code |-> Null, text |-> Some("Gateway unavailable.")]>>,
   <<[code |-> Null, text |-> Null]>>}

\* --------------------------------------------------------- specifications
AnyProcessor == {Null} \cup {Some(p) : p \in Processors}

\* the answers of a backend whose processors all run in the test environment
TestProcessors == {Null} \cup {Some([slug |-> s, environment |-> "test"]) : s \in Slugs}

\* loading: the application calls load() on the module and makes and loads a
\* handler of its own, while scripts load or fail
NextLoad ==
  \/ Load
  \/ \E e \in FetchErrors : LoadFetchFails(e)
  \/ \E proc \in AnyProcessor : LoadFetchReturns(proc)
  \/ LoadResume
  \/ \E c \in 1..MaxLoadCalls : LoadCallSettles(c)
  \/ \E kind \in Kinds, env \in Envs : NewHandler(kind, env)
  \/ \E h \in HIds : HandlerLoad(h)
  \/ \E i \in 1..Cardinality(HIds) : ScriptLoaded(i)
  \/ \E i \in 1..Cardinality(HIds) : ScriptFailed(i)

SpecLoad == Init /\ [][NextLoad]_vars

\* the module's accessors: the application calls load() once and
\* getProcessor() and getHandler() on the module
NextProcessor ==
  \/ Len(loadCalls) = 0 /\ Load
  \/ \E e \in FetchErrors : LoadFetchFails(e)
  \/ \E proc \in AnyProcessor : LoadFetchReturns(proc)
  \/ LoadResume
  \/ \E c \in 1..MaxLoadCalls : LoadCallSettles(c)
  \/ \E i \in 1..Cardinality(HIds) : ScriptLoaded(i)
  \/ \E i \in 1..Cardinality(HIds) : ScriptFailed(i)
  \/ GetProcessor
  \/ \E proc \in AnyProcessor : GetProcessorReturns(proc)
  \/ \E e \in FetchErrors : GetProcessorFails(e)
  \/ GetHandler

SpecProcessor == Init /\ [][NextProcessor]_vars

\* tokenizing: the application calls load() once and tokenize() on the module
\* and on handlers
NextTokenize ==
  \/ Len(loadCalls) = 0 /\ Load
  \/ \E e \in FetchErrors : LoadFetchFails(e)
  \/ \E proc \in TestProcessors : LoadFetchReturns(proc)
  \/ LoadResume
  \/ \E kind \in Kinds : NewHandler(kind, "test")
  \/ \E i \in 1..Cardinality(HIds) : ScriptLoaded(i)
  \/ \E i \in 1..Cardinality(HIds) : ScriptFailed(i)
  \/ \E card \in CardInputs : Tokenize(card)
  \/ \E h \in HIds, card \in CardInputs : HandlerTokenize(h, card)
  \/ \E c \in 1..MaxTokCalls : TokenizeResume(c)
  \/ \E c \in 1..MaxTokCalls, ok \in BOOLEAN : ApiResponds(c, ok)

SpecTokenize == Init /\ [][NextTokenize]_vars

\* transactions: the application calls load() once and charge(), authorize(),
\* capture() and void() in every state of the module
NextTx ==
  \/ Len(loadCalls) = 0 /\ Load
  \/ \E e \in FetchErrors : LoadFetchFails(e)
  \/ \E proc \in TestProcessors : LoadFetchReturns(proc)
  \/ LoadResume
  \/ \E i \in 1..Cardinality(HIds) : ScriptLoaded(i)
  \/ \E i \in 1..Cardinality(HIds) : ScriptFailed(i)
  \/ \E data \in ChargeInputs : Charge(data)
  \/ \E data \in ChargeInputs : Authorize(data)
  \/ \E data \in CaptureInputs : Capture(data)
  \/ \E data \in VoidInputs : Void(data)
  \/ \E resp \in TxResponses : TxResponds(resp)

SpecTx == Init /\ [][NextTx]_vars

\* paying: the application calls load() once, tokenizes through the module or
\* through the module's handler, and passes the token to charge() or authorize()
NextPay ==
  \/ Len(loadCalls) = 0 /\ Load
  \/ \E e \in FetchErrors : LoadFetchFails(e)
  \/ \E proc \in TestProcessors : LoadFetchReturns(proc)
  \/ LoadResume
  \/ \E i \in 1..Cardinality(HIds) : ScriptLoaded(i)
  \/ \E i \in 1..Cardinality(HIds) : ScriptFailed(i)
  \/ \E card \in CardInputs : Tokenize(card)
  \/ \E h \in HIds, card \in CardInputs : HandlerTokenize(h, card)
  \/ \E c \in 1..MaxTokCalls : TokenizeResume(c)
  \/ \E c \in 1..MaxTokCalls, ok \in BOOLEAN : ApiResponds(c, ok)
  \/ \E c \in 1..MaxTokCalls : ChargeWithToken(c)
  \/ \E c \in 1..MaxTokCalls : AuthorizeWithToken(c)
  \/ \E resp \in TxResponses : TxResponds(resp)

SpecPay == Init /\ [][NextPay]_vars

\* the card a shopper types
GoodCard == Card(Some(Visa), Some(<<"1", "2", "/", "3", "0">>), Some(<<"1", "2", "3">>))

\* handles: the application calls load() once on the module, makes a handler
\* of its own, and calls load() and tokenize() on the handlers
NextHandle ==
  \/ Len(loadCalls) = 0 /\ Load
  \/ \E e \in FetchErrors : LoadFetchFails(e)
  \/ \E proc \in TestProcessors : LoadFetchReturns(proc)
  \/ LoadResume
  \/ \E kind \in Kinds : NewHandler(kind, "test")
  \/ \E h \in HIds : HandlerLoad(h)
  \/ \E i \in 1..Cardinality(HIds) : ScriptLoaded(i)
  \/ \E i \in 1..Cardinality(HIds) : ScriptFailed(i)
  \/ \E h \in HIds : HandlerTokenize(h, GoodCard)
  \/ \E c \in 1..MaxTokCalls : TokenizeResume(c)
  \/ \E c \in 1..MaxTokCalls, ok \in BOOLEAN : ApiResponds(c, ok)

SpecHandle == Init /\ [][NextHandle]_vars

\* waiting for a load: the application calls load() once on the module and
\* makes and loads a handler of its own; the config fetch completes, every
\* script tag that is loading fires its load or its error event, and every
\* continuation that can run does run
NextWait ==
  \/ Len(loadCalls) = 0 /\ Load
  \/ \E e \in FetchErrors : LoadFetchFails(e)
  \/ \E proc \in TestProcessors : LoadFetchReturns(proc)
  \/ LoadResume
  \/ \E c \in 1..MaxLoadCalls : LoadCallSettles(c)
  \/ \E kind \in Kinds : NewHandler(kind, "test")
  \/ \E h \in HIds : HandlerLoad(h)
  \/ \E i \in 1..Cardinality(HIds) : ScriptLoaded(i)
  \/ \E i \in 1..Cardinality(HIds) : ScriptFailed(i)

FetchCompletes ==
  \/ \E e \in FetchErrors : LoadFetchFails(e)
  \/ \E proc \in TestProcessors : LoadFetchReturns(proc)

ScriptFires(i) == ScriptLoaded(i) \/ ScriptFailed(i)

WaitFairness ==
  /\ WF_vars(FetchCompletes)
  /\ WF_vars(LoadResume)
  /\ \A c \in 1..MaxLoadCalls : WF_vars(LoadCallSettles(c))
  /\ \A i \in 1..Cardinality(HIds) : WF_vars(ScriptFires(i))

SpecWait == Init /\ [][NextWait]_vars /\ WaitFairness

\* one well-formed argument for each transaction call
GoodCharge == ChargeData(Some("tok_abc"), Some("COMMON.ACCEPT.INAPP.PAYMENT"), TenDollars, Null)
GoodCapture == CaptureData(Some("auth_1"), Null)
GoodVoid == Some([transactionId |-> Some("auth_1")])

\* the whole module: the application calls load(), getProcessor(), tokenize(),
\* getHandler(), charge(), authorize(), capture() and void() in any order
NextModule ==
  \/ Load
  \/ \E e \in FetchErrors : LoadFetchFails(e)
  \/ \E proc \in TestProcessors : LoadFetchReturns(proc)
  \/ LoadResume
  \/ \E i \in 1..Cardinality(HIds) : ScriptLoaded(i)
  \/ \E i \in 1..Cardinality(HIds) : ScriptFailed(i)
  \/ GetProcessor
  \/ \E proc \in TestProcessors : GetProcessorReturns(proc)
  \/ \E e \in FetchErrors : GetProcessorFails(e)
  \/ GetHandler
  \/ Len(tokCalls) = 0 /\ Tokenize(GoodCard)
  \/ \E c \in 1..MaxTokCalls, ok \in BOOLEAN : ApiResponds(c, ok)
  \/ Charge(GoodCharge)
  \/ Authorize(GoodCharge)
  \/ Capture(GoodCapture)
  \/ Void(GoodVoid)
  \/ \E resp \in TxResponses : TxResponds(resp)

SpecModule == Init /\ [][NextModule]_vars

\* card entry: the application makes an Authorize.net handler, loads it and
\* tokenizes one card; Accept.js answers with a token or with errors
NextCard ==
  \/ NewHandler("authorize-net", "test")
  \/ HandlerLoad("S1")
  \/ \E i \in 1..Cardinality(HIds) : ScriptLoaded(i)
  \/ \E i \in 1..Cardinality(HIds) : ScriptFailed(i)
  \/ \E card \in CardCases :
       Len(tokCalls) = 0 /\ handlers["S1"]._loaded /\ HandlerTokenize("S1", card)
  \/ \E c \in 1..MaxTokCalls, ok \in BOOLEAN : ApiResponds(c, ok)
  \/ \E c \in 1..MaxTokCalls, errors \in AcceptErrors : AcceptRespondsError(c, errors)

SpecCard == Init /\ [][NextCard]_vars

\* ------------------------------------------------------------ properties
\* load() on the module has completed successfully
LoadSucceeded == ~IsNull(o._loading) /\ Val(o._loading).st = "resolved"
\* ... has failed with the script's error
LoadFailedOnScript ==
  ~IsNull(o._loading) /\ Val(o._loading).st = "rejected"
                      /\ Val(o._loading).err \in ScriptLoadError

\* the step runs the script-loading algorithm of handler h
Started(h) == IsNull(handlers[h]._loading) /\ ~IsNull(handlers'[h]._loading)
UrlOf(hrec) == IF hrec.kind = "stripe" THEN STRIPE_JS_URL ELSE AcceptSrc(hrec.env)
SymbolOf(hrec) == IF hrec.kind = "stripe" THEN "Stripe" ELSE "Accept"

\* the calls that were served from the stored promise and have settled
Settled(c) == loadCalls[c].via = "promise" /\ loadCalls[c].p.st # "pending"

C1_AtMostOnce ==
  /\ nFetch.clientConfig <= 1
  /\ Injected(scripts, "H0") <= 1
  /\ \A c, d \in 1..Len(loadCalls) : Settled(c) /\ Settled(d) => loadCalls[c].p = loadCalls[d].p
  /\ \A c \in 1..Len(loadCalls) : Settled(c) => loadCalls[c].p = Val(o._loading)

C1_CachedAfterSuccess ==
  Load /\ LoadSucceeded =>
    /\ loadCalls'[Len(loadCalls')].p = Resolved(o._processor)
    /\ nFetch' = nFetch
    /\ scripts' = scripts

\* C1 (as the code has it): over any number of load() calls on one module in a
\* browser or on a server, at most one client-config request is sent and at
\* most one script element is injected by the module's handler (none when the
\* handler adopts a global or an element that is already there); the calls
\* served from the stored promise settle with the outcome of that promise; a
\* call made after success returns the cached processor, sends no request and
\* injects nothing.
C1_LoadOnce == [](C1_AtMostOnce) /\ [][C1_CachedAfterSuccess]_vars

\* C1 as claimed: once load() has succeeded in a browser, exactly one script
\* element has been injected by the module's handler.
C1_ExactlyOneInjection ==
  browser /\ LoadSucceeded => Injected(scripts, "H0") = 1

C1_Witness ==
  /\ browser
  /\ Len(loadCalls) >= 3
  /\ Settled(1) /\ Settled(2) /\ loadCalls[1].p.st = "resolved"
  /\ loadCalls[3].via = "cache"
  /\ Injected(scripts, "H0") = 1
  /\ nFetch.clientConfig = 1

\* C2: after load() has rejected because the script failed, a further load()
\* call starts a new attempt: on the module the stored promise is pending again,
\* on a handler a script load is in flight again.
C2_RetryStartsNewLoad ==
  [][/\ (Load /\ LoadFailedOnScript => Val(o'._loading).st = "pending")
     /\ \A h \in HIds :
          (HandlerLoad(h) /\ ~IsNull(handlers[h]._loading)
                          /\ Val(handlers[h]._loading).st = "rejected")
            => Val(handlers'[h]._loading).st = "pending"]_vars

\* tokenize() on the module that fails as not loaded and touches nothing
FailsNotLoaded ==
  /\ last' = Outcome("tokenize", "pm", Rejected(MsgNotLoaded))
  /\ last'.err \in NotLoadedError
  /\ scripts' = scripts /\ handlers' = handlers
  /\ apiCalls' = apiCalls /\ tokCalls' = tokCalls

C4_FailuresAreReturned ==
  [][\A resp \in TxResponses :
       TxResponds(resp) /\ ~resp.network /\ (~resp.ok \/ ~resp.data.success)
         => /\ last'.st = "resolved"
            /\ ~Val(last'.val).success]_vars

\* s is digits, optionally a point and digits, and is not zero
IsPositiveDecimal(s) ==
  LET dots == {i \in 1..Len(s) : s[i] = "."}
  IN /\ Len(s) > 0
     /\ \A i \in 1..Len(s) : s[i] \in Digits \cup {"."}
     /\ Cardinality(dots) <= 1
     /\ 1 \notin dots /\ Len(s) \notin dots
     /\ \E i \in 1..Len(s) : s[i] \in Digits \ {"0"}

\* C5: the amount in every charge or authorize request is a string that parses
\* to a positive decimal.
C5_AmountIsPositiveDecimal ==
  ~IsNull(txCall) /\ Val(txCall).op \in {"charge", "authorize"}
    => IsPositiveDecimal(Val(txCall).body.amount)

\* C6: outside a browser, tokenize() on the module fails with EnvironmentError
\* when load() has completed and with NotLoadedError when it has not.
C6_EnvironmentErrorOnServer ==
  [][\A card \in CardInputs :
       Tokenize(card) /\ ~browser
         => /\ last'.st = "rejected"
            /\ IF LoadSucceeded THEN last'.err \in EnvironmentError
                                ELSE last'.err \in NotLoadedError]_vars

\* C7: a load() that finds an element for its processor's URL in the document,
\* and no global, adds a listener to it, injects nothing and removes nothing.
C7_ReusesExistingScript ==
  [][\A h \in HIds :
       LET ex == QuerySelector(scripts, {UrlOf(handlers'[h])})
       IN Started(h) /\ browser /\ SymbolOf(handlers'[h]) \notin globals /\ ex # 0
            => /\ Len(scripts') = Len(scripts)
               /\ \A i \in 1..Len(scripts) : scripts'[i].inDoc = scripts[i].inDoc
               /\ h \in scripts'[ex].onload]_vars

Supported == {"authorize-net", "stripe"}

UnsupportedRejected(pm) ==
  /\ Val(pm._loading) = Rejected(MsgUnsupported)
  /\ MsgUnsupported \in UnsupportedProcessorError
  /\ ~pm._loaded
  /\ IsNull(pm._handler)

\* C9 (as the code has it): in a browser, load() fails with
\* UnsupportedProcessorError whenever the backend's processor has a slug other
\* than authorize-net and stripe, and the module then stays not loaded and
\* without a handler.
C9_UnsupportedInBrowser ==
  /\ [][\A proc \in AnyProcessor :
          LoadFetchReturns(proc) /\ browser /\ ~IsNull(proc) /\ Val(proc).slug \notin Supported
            => UnsupportedRejected(o')]_vars
  /\ []((~IsNull(o._loading) /\ Val(o._loading).err = MsgUnsupported)
          => ~o._loaded /\ IsNull(o._handler))

\* C9 as claimed: the same in every execution context.
C9_UnsupportedEverywhere ==
  [][\A proc \in AnyProcessor :
       LoadFetchReturns(proc) /\ ~IsNull(proc) /\ Val(proc).slug \notin Supported
         => UnsupportedRejected(o')]_vars

C9_Witness ==
  /\ browser
  /\ ~IsNull(o._loading) /\ UnsupportedRejected(o)
  /\ Len(loadCalls) > 0 /\ loadCalls[1].p = Rejected(MsgUnsupported)

\* C10: outside a browser, a load() whose fetch reports a processor resolves
\* with it, constructs no handler and injects no script, and the module never
\* has a handler.
C10_ServerLoadSkipsHandler ==
  /\ [][\A proc \in AnyProcessor :
          LoadFetchReturns(proc) /\ ~browser /\ ~IsNull(proc)
            => /\ Val(o'._loading) = Resolved(proc)
               /\ IsNull(o'._handler)
               /\ handlers' = handlers /\ scripts' = scripts]_vars
  /\ [](~browser => IsNull(o._handler) /\ ~handlers["H0"].made
                                       /\ Injected(scripts, "H0") = 0)

C10_Witness ==
  /\ ~browser
  /\ LoadSucceeded /\ o._loaded
  /\ ~IsNull(Val(o._loading).val)
  /\ Len(loadCalls) > 1 /\ loadCalls[1].p = Val(o._loading)
  /\ IsNull(o._handler)

\* a step of getProcessor(): the call, or the arrival of its response
GetProcessorStep ==
  \/ GetProcessor
  \/ \E proc \in AnyProcessor : GetProcessorReturns(proc)
  \/ \E e \in FetchErrors : GetProcessorFails(e)

\* C11: no step of getProcessor() constructs a handler, touches a script or
\* changes the loaded flag or the stored load; a call made while a processor is
\* cached answers with it and sends no request; any other call sends exactly
\* one request, to the processor endpoint.
C11_GetProcessorIsLight ==
  [][/\ GetProcessorStep =>
          /\ handlers' = handlers /\ scripts' = scripts /\ globals' = globals
          /\ o'._handler = o._handler /\ o'._loaded = o._loaded
          /\ o'._loading = o._loading /\ iife' = iife
          /\ nFetch'.clientConfig = nFetch.clientConfig
     /\ GetProcessor =>
          IF ~IsNull(o._processor)
            THEN /\ nFetch' = nFetch /\ gpPending' = gpPending
                 /\ last' = Outcome("getProcessor", "pm", Resolved(o._processor))
            ELSE /\ nFetch'.processor = nFetch.processor + 1
                 /\ gpPending' = gpPending + 1]_vars

C11_Witness ==
  /\ browser
  /\ nFetch = [clientConfig |-> 0, processor |-> 1]
  /\ gpPending = 0
  /\ last.op = "getProcessor" /\ last.st = "resolved" /\ ~IsNull(last.val)
  /\ ~o._loaded /\ IsNull(o._handler) /\ scripts = <<>>

\* C12: the processor config is requested from the backend at most once over
\* load() and getProcessor() together, and a cached processor is never replaced.
C12_FetchedOnceImmutable ==
  /\ [](nFetch.clientConfig + nFetch.processor <= 1)
  /\ [][~IsNull(o._processor) => o'._processor = o._processor]_vars

\* ------------------------------------------------- transaction properties
\* a field that was not given: undefined, null or empty
MissingField(f) == IsNull(f) \/ Val(f) = ""
MissingAmount(a) == IsNull(a) \/ a = JsNull \/ a = Str(<<>>)

MissingChargeField(data) ==
  IsNull(data) \/ MissingField(Val(data).token) \/ MissingAmount(Val(data).amount)

MissingTransactionId(data) == IsNull(data) \/ MissingField(Val(data).transactionId)

\* the call of op rejects with ValidationError and sends nothing
RejectsInvalid(op) ==
  /\ last'.op = op /\ last'.st = "rejected" /\ last'.err \in ValidationError
  /\ txCall' = txCall /\ nFetch' = nFetch

\* C13: charge() and authorize() given no argument, no token or no amount
\* reject with ValidationError and send no request, and the two accept and
\* refuse the same arguments.
C13_ChargeValidates ==
  /\ [][\A data \in ChargeInputs :
          MissingChargeField(data) =>
            /\ Charge(data) => RejectsInvalid("charge")
            /\ Authorize(data) => RejectsInvalid("authorize")]_vars
  /\ [](\A data \in ChargeInputs : ChargeInvalid(data) <=> AuthorizeInvalid(data))

C13_Witness ==
  /\ last = Outcome("authorize", "pm", Rejected(MsgAuthorizeRequired))
  /\ IsNull(txCall)
  /\ o._loaded /\ browser

\* C14: capture() and void() given no argument or no transactionId reject with
\* ValidationError and send no request, whatever the module's state.
C14_TransactionIdRequired ==
  [][/\ \A data \in CaptureInputs :
          MissingTransactionId(data) /\ Capture(data) => RejectsInvalid("capture")
     /\ \A data \in VoidInputs :
          MissingTransactionId(data) /\ Void(data) => RejectsInvalid("void")]_vars

C14_Witness ==
  /\ last = Outcome("void", "pm", Rejected(MsgVoidRequired))
  /\ IsNull(txCall)
  /\ LoadFailedOnScript

\* an amount was given to capture(): it is neither undefined nor null
AmountProvided(a) == ~IsNull(a) /\ a # JsNull

\* C15: the body capture() sends has the given transactionId, has the given
\* amount as a string when one was provided, and has no amount key when none
\* was (absent, undefined or null).
C15_CaptureAmountOptional ==
  [][\A data \in CaptureInputs :
       Capture(data) /\ ~MissingTransactionId(data) =>
         LET b == Val(txCall').body
             a == Val(data).amount
         IN /\ b.transaction_id = Val(Val(data).transactionId)
            /\ IF AmountProvided(a)
                 THEN /\ b.amount = Some(String(a))
                      /\ Val(a).t = "str" => b.amount = Some(Val(a).s)
                 ELSE b.amount = Null]_vars

\* what the application may reasonably pass as an amount
WellFormedAmount(a) ==
  /\ ~IsNull(a)
  /\ \/ Val(a).t = "num" /\ Val(a).cents > 0
     \/ Val(a).t = "str" /\ IsPositiveDecimal(Val(a).s)

WellFormedCharge(data) ==
  ~IsNull(data) /\ ~MissingField(Val(data).token) /\ WellFormedAmount(Val(data).amount)

WellFormedCapture(data) ==
  /\ ~MissingTransactionId(data)
  /\ IsNull(Val(data).amount) \/ WellFormedAmount(Val(data).amount)

\* the step hands exactly one POST for op with this body to _fetch and leaves
\* the module, its load and the page alone
SendsOnePost(op, body) ==
  /\ IsNull(txCall)
  /\ txCall' = Some([op |-> op, method |-> "POST",
                     url |-> "/api/storefront/payment/" \o op, body |-> body])
  /\ o' = o /\ iife' = iife /\ loadCalls' = loadCalls /\ nFetch' = nFetch
  /\ handlers' = handlers /\ scripts' = scripts /\ globals' = globals

\* C17: in every state of the module and in a browser or not, a well-formed
\* charge(), authorize(), capture() or void() sends one POST to its own
\* endpoint with the body built from its argument alone, and neither needs nor
\* starts a load.
C17_TransactionsNeedNoLoad ==
  [][/\ \A data \in ChargeInputs :
          WellFormedCharge(data) =>
            /\ Charge(data) => SendsOnePost("charge", ChargeBody(data))
            /\ Authorize(data) => SendsOnePost("authorize", ChargeBody(data))
     /\ \A data \in CaptureInputs :
          WellFormedCapture(data) /\ Capture(data)
            => SendsOnePost("capture", CaptureBody(data))
     /\ \A data \in VoidInputs :
          ~MissingTransactionId(data) /\ Void(data)
            => SendsOnePost("void", VoidBody(data))]_vars

C17_Witness ==
  /\ ~browser
  /\ iife = "fetch" /\ ~o._loaded
  /\ ~IsNull(txCall) /\ Val(txCall).op = "capture"
  /\ Val(txCall).url = "/api/storefront/payment/capture"
  /\ Val(txCall).body.amount = Some(<<"1", "0", ".", "0", "0">>)

\* C16: charge() or authorize() called with a token object a handler's
\* tokenize() resolved with sends a body whose token and descriptor are that
\* object's.
C16_TokenRoundTrip ==
  [][\A c \in 1..MaxTokCalls :
       ChargeWithToken(c) \/ AuthorizeWithToken(c) =>
         /\ ~IsNull(txCall')
         /\ Val(txCall').body.token = Val(tokCalls[c].tok).token
         /\ Val(txCall').body.descriptor = Val(tokCalls[c].tok).descriptor]_vars

C16_Witness ==
  /\ ~IsNull(txCall)
  /\ Val(txCall).op = "authorize"
  /\ \E c \in 1..Len(tokCalls) :
       /\ tokCalls[c].st = "resolved"
       /\ handlers[tokCalls[c].h].kind = "authorize-net"
       /\ Val(txCall).body.token = Val(tokCalls[c].tok).token
       /\ Val(txCall).body.descriptor = "COMMON.ACCEPT.INAPP.PAYMENT"

\* getHandler() throws NotLoadedError
GetHandlerFails ==
  /\ last'.op = "getHandler" /\ last'.st = "rejected" /\ last'.err \in NotLoadedError

\* C18 (as the code has it): getHandler() fails with NotLoadedError when load()
\* has not run, and outside a browser always, also after load() has completed;
\* in a browser, after load() has completed successfully, it returns the
\* module's handler, which is loaded.  It changes nothing.
C18_GetHandlerInBrowser ==
  [][GetHandler =>
       /\ iife = "none" => GetHandlerFails
       /\ ~browser => GetHandlerFails
       /\ browser /\ LoadSucceeded =>
            /\ last' = Outcome("getHandler", "pm", Resolved(Some([handler |-> Some("H0")])))
            /\ handlers["H0"].made /\ handlers["H0"]._loaded
       /\ o' = o /\ handlers' = handlers /\ scripts' = scripts]_vars

\* C18 as claimed: after load() has completed, in a browser or not,
\* getHandler() returns a handler.
C18_GetHandlerAfterLoad ==
  [][GetHandler =>
       /\ iife = "none" => GetHandlerFails
       /\ LoadSucceeded => last'.st = "resolved" /\ ~IsNull(Val(last'.val).handler)]_vars

C18_Witness ==
  /\ browser /\ LoadSucceeded
  /\ last = Outcome("getHandler", "pm", Resolved(Some([handler |-> Some("H0")])))
  /\ handlers["H0"]._loaded

\* C19: isLoaded is true only if the module has a handler and that handler is
\* loaded; it is false while no load() has completed successfully.
C19_IsLoadedMeansLibraryLoaded ==
  /\ IsLoaded(o) => ~IsNull(o._handler) /\ handlers["H0"]._loaded
  /\ ~LoadSucceeded => ~IsLoaded(o)

\* the state of a handle; FAILED is a handle whose stored load has rejected
HandleState(hrec) ==
  IF hrec._loaded THEN "LOADED"
  ELSE IF IsNull(hrec._loading) THEN "UNLOADED"
  ELSE IF Val(hrec._loading).st = "pending" THEN "LOADING"
  ELSE "FAILED"

HandleMoves ==
  {<<"UNLOADED", "UNLOADED">>, <<"UNLOADED", "LOADING">>, <<"UNLOADED", "LOADED">>,
   <<"LOADING", "LOADING">>, <<"LOADING", "LOADED">>, <<"LOADING", "FAILED">>,
   <<"LOADED", "LOADED">>, <<"FAILED", "FAILED">>}

\* C20: a loaded handle stays loaded under every later step, load() and
\* tokenize() included; no step takes a loading or loaded handle back to
\* unloaded; a handle moves forward only (straight to loaded when it adopts a
\* global that is already there, to a final failed state when its script fails).
C20_HandleOneWay ==
  [][\A h \in HIds :
       handlers[h].made =>
         /\ handlers'[h].made /\ handlers'[h].kind = handlers[h].kind
         /\ HandleState(handlers[h]) = "LOADED" => HandleState(handlers'[h]) = "LOADED"
         /\ HandleState(handlers[h]) \in {"LOADING", "LOADED"}
              => HandleState(handlers'[h]) # "UNLOADED"
         /\ <<HandleState(handlers[h]), HandleState(handlers'[h])>> \in HandleMoves]_vars

C20_Witness ==
  /\ HandleState(handlers["S1"]) = "LOADED"
  /\ handlers["S1"].path = "inject"
  /\ last = Outcome("handler.load", "S1", Resolved(Null))
  /\ \E c \in 1..Len(tokCalls) : tokCalls[c].h = "S1" /\ tokCalls[c].st = "resolved"

\* the script elements handle h still waits for
InFlight(h) ==
  {i \in 1..Len(scripts) : scripts[i].status = "loading" /\ h \in scripts[i].onload}

NewTok == tokCalls'[Len(tokCalls')]

\* the step is tokenize(card) on the loaded Authorize.net handler
TokenizesCard(card) == handlers["S1"]._loaded /\ HandlerTokenize("S1", card)

RejectsCard ==
  /\ NewTok.st = "rejected" /\ NewTok.err \in ValidationError
  /\ apiCalls' = apiCalls

\* cards with a field missing or plainly wrong
InvalidNumbers ==
  {Null, Some(<<>>), Some(Rep("4", 12)), Some(Rep("4", 20)), Some(Rep("4", 12) \o <<"a">>),
   Some(Rep("4", 8) \o <<"-">> \o Rep("1", 8))}

InvalidExpiries ==
  {Null, Some(<<>>), Some(<<"a", "b", "c">>), Some(<<"1", "2", "-", "3", "0">>),
   Some(<<"1", "3", "/", "3", "0">>), Some(<<"0", "0", "/", "3", "0">>),
   Some(<<"0", "1", "/", "2", "0">>), Some(<<"0", "5", "/", "2", "5">>),
   Some(<<"1", "2", "/", "2", "0", "2", "4">>)}

InvalidCvvs ==
  {Null, Some(<<>>), Some(<<"1", "2">>), Some(<<"1", "2", "3", "4", "5">>),
   Some(<<"1", "2", "a">>)}

InvalidCards ==
  {Null}
  \cup {Card(n, GoodExpiry, GoodCvv) : n \in InvalidNumbers}
  \cup {Card(Some(Visa), e, GoodCvv) : e \in InvalidExpiries}
  \cup {Card(Some(Visa), GoodExpiry, v) : v \in InvalidCvvs}

\* C22: tokenize() on a loaded Authorize.net handler with a card that has a
\* field missing, a bad number, a bad or expired expiry or a bad CVV rejects
\* with a validation error in the same step, and dispatchData is not called.
C22_InvalidCardNeverDispatched ==
  /\ InvalidCards \subseteq CardCases
  /\ [][\A card \in InvalidCards : TokenizesCard(card) => RejectsCard]_vars
  /\ [](\A c \in 1..Len(tokCalls) :
           tokCalls[c].st = "rejected" /\ tokCalls[c].err \in ValidationError
             => apiCalls = 0)

C22_Witness ==
  /\ handlers["S1"]._loaded /\ handlers["S1"].kind = "authorize-net"
  /\ Len(tokCalls) = 1
  /\ tokCalls[1].st = "rejected" /\ tokCalls[1].err = MsgExpired
  /\ apiCalls = 0

\* the month and the full year an expiry in a documented form names
MonthOf(e) == ParseInt(SubSeq(e, 1, 2))
FullYearOf(e, d) ==
  LET y == SubSeq(e, 4, Len(e))
  IN IF Len(y) = 4 THEN ParseInt(y) ELSE (d.year \div 100) * 100 + ParseInt(y)

IsBefore(e, d) ==
  \/ FullYearOf(e, d) < d.year
  \/ FullYearOf(e, d) = d.year /\ MonthOf(e) < d.month

\* C23: for an expiry in a documented form, validation fails with the expired
\* error exactly when its month and full year are before the current ones, and
\* succeeds otherwise, also for a year in another century.
C23_ExpiredExactlyWhenBefore ==
  [][\A e \in DocumentedExpiries :
       TokenizesCard(Card(Some(Visa), Some(e), GoodCvv)) =>
         IF IsBefore(e, now)
           THEN NewTok.st = "rejected" /\ NewTok.err = MsgExpired
           ELSE NewTok.st = "api"]_vars

\* MM/YY or MM/YYYY
IsDocumentedForm(e) ==
  /\ Len(e) \in {5, 7}
  /\ e[3] = "/"
  /\ \A i \in (1..Len(e)) \ {3} : e[i] \in Digits

\* C24: validation accepts an expiry only in the form MM/YY or MM/YYYY, rejects
\* every other string and every month outside 1..12 with a validation error,
\* and what it hands on has a two-digit month and a two-digit year.
C24_OnlyDocumentedForms ==
  [][\A e \in DocumentedExpiries \cup OtherExpiries :
       TokenizesCard(Card(Some(Visa), Some(e), GoodCvv)) =>
         /\ ~IsDocumentedForm(e) => RejectsCard
         /\ IsDocumentedForm(e) /\ MonthOf(e) \notin 1..12 => RejectsCard
         /\ NewTok.st = "api" =>
              /\ Len(Val(NewTok.sent).month) = 2
              /\ Len(Val(NewTok.sent).year) = 2]_vars

\* the digits of s, in order
DigitsOf(s) == SelectSeq(s, LAMBDA ch : ch \in Digits)

\* s is 13 to 19 digits once its whitespace is taken out
IsCardNumber(s) ==
  /\ \A i \in 1..Len(s) : s[i] \in Digits \cup Whitespace
  /\ Len(DigitsOf(s)) \in 13..19

\* C25: validation hands on the digits of the card number, in order and without
\* whitespace, when the number without its whitespace is 13 to 19 digits, and
\* fails with a validation error for every other number.
C25_CardNumberNormalized ==
  [][\A n \in CardNumbers :
       TokenizesCard(Card(n, GoodExpiry, GoodCvv)) =>
         IF ~IsNull(n) /\ IsCardNumber(Val(n))
           THEN /\ NewTok.st = "api"
                /\ Val(NewTok.sent).cardNumber = DigitsOf(Val(n))
                /\ apiCalls' = apiCalls + 1
           ELSE /\ RejectsCard
                /\ NewTok.err \in {MsgNumberRequired, MsgNumberInvalid}]_vars

C25_Witness ==
  /\ Len(tokCalls) = 1
  /\ tokCalls[1].st = "api"
  /\ Val(tokCalls[1].sent).cardNumber = Rep("4", 13)
  /\ apiCalls = 1

\* the code of the first error Accept.js reported, "" when it reported none
RawCode(errors) ==
  IF Len(errors) = 0 \/ IsNull(errors[1].code) THEN "" ELSE Val(errors[1].code)

KnownCodes ==
  {"E_WC_01", "E_WC_02", "E_WC_03", "E_WC_04", "E_WC_05", "E_WC_06", "E_WC_07",
   "E_WC_08", "E_WC_09", "E_WC_10", "E_WC_11", "E_WC_12", "E_WC_13", "E_WC_14",
   "E_WC_15", "E_WC_16", "E_WC_17", "E_WC_18", "E_WC_19", "E_WC_20", "E_WC_21"}

\* C26: when Accept.js reports an error, tokenize() rejects with the table's
\* message for a known code and with the generic message for any other code,
\* the error's code is the raw code, and the message is not empty.
C26_ErrorsMapped ==
  [][\A c \in 1..MaxTokCalls, errors \in AcceptErrors :
       AcceptRespondsError(c, errors) =>
         /\ tokCalls'[c].st = "rejected"
         /\ tokCalls'[c].code = RawCode(errors)
         /\ tokCalls'[c].err # ""
         /\ IF RawCode(errors) \in KnownCodes
              THEN tokCalls'[c].err = ERROR_MESSAGES[RawCode(errors)]
              ELSE tokCalls'[c].err = MsgCardFailed]_vars

\* --------------------------------------------------- concurrent tokenize()
\* the calls made before this step are as they were, except call c
OthersUntouched(c) ==
  /\ Len(tokCalls') >= Len(tokCalls)
  /\ \A d \in (1..Len(tokCalls)) \ {c} : tokCalls'[d] = tokCalls[d]

\* another tokenize() call on handler h is waiting for the processor's API
OtherInFlight(h) == \E d \in 1..Len(tokCalls) : tokCalls[d].h = h /\ tokCalls[d].st = "api"

\* C27: a tokenize() call on a loaded handler makes its own call to the
\* processor's API also while another call on that handler is in flight, and
\* leaves that call as it is; an answer of the API settles only the call it
\* answers, so two calls complete in either order.
C27_ConcurrentTokenizeIndependent ==
  /\ [][\A h \in HIds :
          HandlerTokenize(h, GoodCard) /\ handlers[h]._loaded /\ OtherInFlight(h) =>
            /\ NewTok.st = "api" /\ NewTok.h = h
            /\ apiCalls' = apiCalls + 1
            /\ OthersUntouched(0)]_vars
  /\ [][\A c \in 1..MaxTokCalls, ok \in BOOLEAN :
          ApiResponds(c, ok) =>
            /\ tokCalls'[c].st = (IF ok THEN "resolved" ELSE "rejected")
            /\ OthersUntouched(c)
            /\ apiCalls' = apiCalls]_vars
  /\ [][\A c \in 1..MaxTokCalls : TokenizeResume(c) => OthersUntouched(c)]_vars

\* two calls on one handler; the second one has its token, the first still waits
C27_Witness ==
  /\ Len(tokCalls) = 2
  /\ tokCalls[1].h = tokCalls[2].h
  /\ tokCalls[1].st = "api"
  /\ tokCalls[2].st = "resolved"
  /\ apiCalls = 2

\* ------------------------------------------- cached processor and handler
\* C29: once load() has succeeded in a browser, the cached processor is not
\* null and its slug names the variant of the constructed handler, whenever
\* the answers to getProcessor() calls arrive.
C29_ProcessorMatchesHandler ==
  browser /\ LoadSucceeded =>
    /\ ~IsNull(o._processor)
    /\ ~IsNull(o._handler)
    /\ CreateHandlerKind(Val(o._processor).slug) = Some(handlers[Val(o._handler)].kind)

\* the step constructs a ProcessorHandler for the module
Constructs ==
  /\ \E proc \in AnyProcessor : LoadFetchReturns(proc)
  /\ iife' = "handler"

\* C30: whatever the application calls on the module, a ProcessorHandler is
\* constructed only while the module has none, the module's load function
\* runs at most once, and a handler reference that is set stays the same
\* handler, also after load() has failed.
C30_HandlerSetOnce ==
  /\ [][Constructs => IsNull(o._handler) /\ ~handlers["H0"].made]_vars
  /\ [][~IsNull(o._handler) =>
          /\ o'._handler = o._handler
          /\ handlers'[Val(o._handler)].made
          /\ handlers'[Val(o._handler)].kind = handlers[Val(o._handler)].kind
          /\ handlers'[Val(o._handler)].env = handlers[Val(o._handler)].env]_vars
  /\ [](nFetch.clientConfig <= 1)

\* load() has failed on the script, the handler is still referenced, and the
\* application has called load() again and getProcessor() since
C30_Witness ==
  /\ LoadFailedOnScript
  /\ o._handler = Some("H0") /\ handlers["H0"].made
  /\ Len(loadCalls) >= 2
  /\ nFetch.processor >= 1
  /\ last.op = "void"

\* ------------------------------------------------------------- termination
\* handler h's load() has returned a promise that has not settled
HandlerWaits(h) == ~IsNull(handlers[h]._loading) /\ Val(handlers[h]._loading).st = "pending"

\* the module's load() has returned a promise that has not settled
ModuleWaits == ~IsNull(o._loading) /\ Val(o._loading).st = "pending"

\* C28: when the config fetch completes and every script tag fires its load
\* or its error event, every load() of a handler and every load() of the
\* module eventually resolves or rejects.
C28_LoadsSettle ==
  /\ \A h \in HIds : HandlerWaits(h) ~> ~HandlerWaits(h)
  /\ ModuleWaits ~> ~ModuleWaits

====
